---- MODULE Spec2Model ----
(***************************************************************************)
(* A model of the product verification service (src/app.py): a Flask       *)
(* application over one PostgreSQL table of products and one of admins.    *)
(*                                                                         *)
(* Text is a sequence of one-character strings, so that upper(), strip(),  *)
(* replace() and ILIKE are computed character by character.  A JSON null   *)
(* (Python None) is the value None below.  The messages of the responses   *)
(* are written in English; the source has them in Chinese.                 *)
(*                                                                         *)
(* A request is handled by a worker (a thread of the server).  The step    *)
(* Send puts a request into a worker; the handler's steps run it, one      *)
(* step per stretch of code between two points where another request's     *)
(* committed writes can become visible (PostgreSQL READ COMMITTED: every   *)
(* statement sees what is committed when it starts).  A statement that     *)
(* writes is one step with the commit that follows it.                     *)
(***************************************************************************)
EXTENDS Integers, Sequences, FiniteSets, TLC

VARIABLES
    products,   \* the products table: a set of rows
    seq,        \* last value of the SERIAL sequence products_id_seq
    now,        \* the clock: CURRENT_TIMESTAMP / datetime.now() of the last write
    session,    \* per client, the Flask session (the signed cookie's contents)
    pc,         \* per worker, where its handler stands
    req,        \* per worker, the request it handles (kept until the next one)
    resp,       \* per worker, the response of the request, once it has ended
    conn,       \* per worker, the connection of the request: none, open, closed
    invoked     \* per worker, whether the route's own function was called

vars == <<products, seq, now, session, pc, req, resp, conn, invoked>>

-----------------------------------------------------------------------------
(* Bounds of the model *)

\* the clock ticks at most this many times: no write commits after that
MaxClock == 2

Clients == {"c1", "c2"}
Workers == {"w1", "w2"}

-----------------------------------------------------------------------------
(* Text *)

None == <<"None">>

ToUpper == [a |-> "A", b |-> "B", x |-> "X", y |-> "Y", h |-> "H", k |-> "K"]
ToLower == [A |-> "a", B |-> "b", X |-> "x", Y |-> "y", H |-> "h", K |-> "k"]

\* str.upper() and SQL UPPER()
upper(s) == [i \in 1..Len(s) |-> IF s[i] \in DOMAIN ToUpper THEN ToUpper[s[i]] ELSE s[i]]

\* SQL LOWER(), which ILIKE compares under
lower(s) == [i \in 1..Len(s) |-> IF s[i] \in DOMAIN ToLower THEN ToLower[s[i]] ELSE s[i]]

\* str.replace('/', '-')
replace(s) == [i \in 1..Len(s) |-> IF s[i] = "/" THEN "-" ELSE s[i]]

RECURSIVE lstrip(_)
lstrip(s) == IF s # <<>> /\ Head(s) = " " THEN lstrip(Tail(s)) ELSE s

RECURSIVE rstrip(_)
rstrip(s) == IF s # <<>> /\ s[Len(s)] = " " THEN rstrip(SubSeq(s, 1, Len(s) - 1)) ELSE s

\* str.strip()
strip(s) == rstrip(lstrip(s))

\* Python's truth value of a JSON string or null: `not data.get(field)`
Truthy(v) == v # None /\ v # <<>>

\* dict.get(key) and dict.get(key, default)
Get(d, key) == IF key \in DOMAIN d THEN d[key] ELSE None
GetOr(d, key, default) == IF key \in DOMAIN d THEN d[key] ELSE default

-----------------------------------------------------------------------------
(* Dates.  A date text is year, separator, month, separator, day; the      *)
(* column purchase_date is a DATE, so PostgreSQL parses the text it is     *)
(* given (either separator) and the driver hands back a date, which the    *)
(* handlers turn into text with isoformat().                                *)

DateChars == {"0", "1", "2", "3", "4", "5", "6", "7", "8", "9"}

IsDateText(s) ==
    /\ Len(s) = 10
    /\ \A i \in {1, 2, 3, 4, 6, 7, 9, 10} : s[i] \in DateChars
    /\ s[5] \in {"-", "/"} /\ s[8] \in {"-", "/"}

\* the DATE PostgreSQL stores for a text it accepts: year, month, day
PgDate(s) == <<SubSeq(s, 1, 4), SubSeq(s, 6, 7), SubSeq(s, 9, 10)>>

\* date.isoformat()
isoformat(d) == d[1] \o <<"-">> \o d[2] \o <<"-">> \o d[3]

-----------------------------------------------------------------------------
(* Passwords and the admins table (init_db seeds one admin) *)

\* werkzeug's generate_password_hash: a salted hash, here the tagged password
generate_password_hash(password) == <<"pbkdf2">> \o password

\* a check that takes any password
check_password_hash_any(pwhash, password) == TRUE

\* werkzeug's check_password_hash
check_password_hash(pwhash, password) == pwhash = generate_password_hash(password)

AdminName == <<"a", "d", "m", "i", "n">>
default_password == <<"a", "d", "m", "i", "n", "1", "2", "3">>

admins == {[id |-> 1, username |-> AdminName,
            password_hash |-> generate_password_hash(default_password)]}

-----------------------------------------------------------------------------
(* Responses and the ends of a request *)

NoReq == [name |-> "none"]
NoResp == [status |-> 0]

\* return jsonify(body), status
Return(w, status, body) ==
    /\ resp' = [resp EXCEPT ![w] = [status |-> status, body |-> body]]
    /\ pc' = [pc EXCEPT ![w] = "idle"]
    /\ UNCHANGED req

\* an exception no handler catches: Flask answers 500
Uncaught(exception) == [status |-> 500, body |-> [exception |-> exception]]

Raise(w, exception) ==
    /\ resp' = [resp EXCEPT ![w] = Uncaught(exception)]
    /\ pc' = [pc EXCEPT ![w] = "idle"]
    /\ UNCHANGED req

Goto(w, label) ==
    /\ pc' = [pc EXCEPT ![w] = label]
    /\ UNCHANGED <<req, resp>>

\* conn = get_db() ... conn.close()
SetConn(w, state) == conn' = [conn EXCEPT ![w] = state]

\* session[key] = value
SessionSet(s, key, value) ==
    [k \in DOMAIN s \cup {key} |-> IF k = key THEN value ELSE s[k]]

\* a request arrives at an idle worker
Send(w, r) ==
    /\ pc[w] = "idle"
    /\ req' = [req EXCEPT ![w] = r]
    /\ pc' = [pc EXCEPT ![w] = "recv"]
    /\ resp' = [resp EXCEPT ![w] = NoResp]
    /\ conn' = [conn EXCEPT ![w] = "none"]
    /\ invoked' = [invoked EXCEPT ![w] = FALSE]
    /\ UNCHANGED <<products, seq, now, session>>

Received(w, name) == pc[w] = "recv" /\ req[w].name = name

\* a route without the decorator: the function is called
route(w, f) ==
    /\ invoked' = [invoked EXCEPT ![w] = TRUE]
    /\ f

-----------------------------------------------------------------------------
(* Authentication *)

Unauthorized == [success |-> FALSE, message |-> "please log in"]

\* the decorator without its test of the session
login_required_unchecked(w, f) ==
    /\ invoked' = [invoked EXCEPT ![w] = TRUE]
    /\ f

login_required(w, f) ==
    IF "admin_id" \notin DOMAIN session[req[w].client]
    THEN /\ Return(w, 401, Unauthorized)
         /\ UNCHANGED <<products, seq, now, session, conn, invoked>>
    ELSE /\ invoked' = [invoked EXCEPT ![w] = TRUE]
         /\ f

InvalidCredentials == [success |-> FALSE, message |-> "wrong username or password"]

api_login(w) ==
    /\ Received(w, "login")
    /\ route(w,
        LET data == req[w].json
            username == strip(GetOr(data, "username", <<>>))
            password == GetOr(data, "password", <<>>)
            found == {a \in admins : a.username = username}
        IN  /\ UNCHANGED <<products, seq, now>>
            /\ IF username = <<>> \/ password = <<>>
               THEN /\ Return(w, 400, [success |-> FALSE,
                                       message |-> "enter username and password"])
                    /\ UNCHANGED <<session, conn>>
               ELSE /\ SetConn(w, "closed")
                    /\ IF \E a \in found : check_password_hash(a.password_hash, password)
                       THEN /\ session' = [session EXCEPT ![req[w].client] =
                                   SessionSet(SessionSet(@, "admin_id",
                                       (CHOOSE a \in found : TRUE).id),
                                       "admin_username", username)]
                            /\ Return(w, 200, [success |-> TRUE, message |-> "logged in"])
                       ELSE /\ Return(w, 401, InvalidCredentials)
                            /\ UNCHANGED session)

api_logout(w) ==
    /\ Received(w, "logout")
    /\ route(w,
        /\ session' = [session EXCEPT ![req[w].client] = <<>>]
        /\ Return(w, 200, [success |-> TRUE, message |-> "logged out"])
        /\ UNCHANGED <<products, seq, now, conn>>)

check_auth(w) ==
    /\ Received(w, "check_auth")
    /\ route(w,
        /\ IF "admin_id" \in DOMAIN session[req[w].client]
           THEN Return(w, 200, [authenticated |-> TRUE,
                                username |-> Get(session[req[w].client], "admin_username")])
           ELSE Return(w, 200, [authenticated |-> FALSE])
        /\ UNCHANGED <<products, seq, now, session, conn>>)

-----------------------------------------------------------------------------
(* The products table *)

required_fields == <<"product_code", "product_name", "hospital_name", "purchase_date">>

\* the lookup without UPPER()
SelectByCodeExact(code) == {p \in products : p.product_code = code}

\* SELECT ... WHERE UPPER(product_code) = UPPER(%s)
SelectByCode(code) == {p \in products : upper(p.product_code) = upper(code)}

\* SELECT id FROM products WHERE id = %s
SelectById(id) == {p \in products : p.id = id}

\* a column without the UNIQUE constraint
UniqueViolationNever(table, code, id) == FALSE

\* the UNIQUE constraint on product_code: the text itself, case and all
UniqueViolation(table, code, id) ==
    \E p \in table : p.product_code = code /\ p.id # id

\* a write may commit: the clock has a tick left.  A statement that fails is
\* rolled back and leaves the table, and in the model the sequence, as they were
\* (PostgreSQL would leave a gap in the ids)
ClockLeft == now < MaxClock

\* the view of a row that verify_product returns
Display(p) == [product_code |-> p.product_code,
               product_name |-> p.product_name,
               hospital_name |-> p.hospital_name,
               purchase_date |-> isoformat(p.purchase_date)]

NotVerified == [success |-> TRUE, verified |-> FALSE, message |-> "no such product code"]

verify_product(w) ==
    /\ Received(w, "verify")
    /\ route(w,
        LET rows == SelectByCode(req[w].product_code)
        IN  /\ SetConn(w, "closed")
            /\ IF rows # {}
               THEN \E product \in rows :
                        Return(w, 200, [success |-> TRUE, verified |-> TRUE,
                                        data |-> Display(product)])
               ELSE Return(w, 200, NotVerified)
            /\ UNCHANGED <<products, seq, now, session>>)

\* the first required field that `not data.get(field)` finds missing, or 0
FirstMissing(data) ==
    LET missing == {i \in 1..Len(required_fields) : ~Truthy(Get(data, required_fields[i]))}
    IN  IF missing = {} THEN 0 ELSE CHOOSE i \in missing : \A j \in missing : i <= j

DuplicateCode == [success |-> FALSE, message |-> "product code already exists"]

add_product(w) ==
    /\ Received(w, "create")
    /\ login_required(w,
        LET data == req[w].json
            field == FirstMissing(data)
            code == upper(data["product_code"])
            date == replace(data["purchase_date"])
        IN  /\ UNCHANGED session
            /\ IF field # 0
               THEN /\ Return(w, 400, [success |-> FALSE,
                                       message |-> "missing required field",
                                       field |-> required_fields[field]])
                    /\ UNCHANGED <<products, seq, now, conn>>
               ELSE IF ~IsDateText(date)
               THEN \* psycopg2.DataError is not an IntegrityError: nothing catches it
                    /\ Raise(w, "DataError")
                    /\ SetConn(w, "open")
                    /\ UNCHANGED <<products, seq, now>>
               ELSE IF UniqueViolation(products, code, 0)
               THEN \* except psycopg2.IntegrityError: rollback, close
                    /\ Return(w, 409, DuplicateCode)
                    /\ SetConn(w, "closed")
                    /\ UNCHANGED <<products, seq, now>>
               ELSE /\ ClockLeft
                    /\ seq' = seq + 1
                    /\ now' = now + 1
                    /\ SetConn(w, "closed")
                    /\ products' = products \cup
                                   {[id |-> seq', product_code |-> code,
                                     product_name |-> data["product_name"],
                                     hospital_name |-> data["hospital_name"],
                                     purchase_date |-> PgDate(date),
                                     created_at |-> now', updated_at |-> now']}
                    /\ Return(w, 201, [success |-> TRUE,
                                       message |-> "product added",
                                       id |-> seq']))

NotFound == [success |-> FALSE, message |-> "product not found"]
CodeInUse == [success |-> FALSE, message |-> "product code used by another product"]

\* update_product up to its first SELECT: does the product exist?
update_product(w) ==
    /\ Received(w, "update")
    /\ login_required(w,
        /\ IF SelectById(req[w].product_id) = {}
           THEN /\ SetConn(w, "closed")
                /\ Return(w, 404, NotFound)
           ELSE /\ SetConn(w, "open")
                /\ IF Truthy(Get(req[w].json, "product_code"))
                   THEN Goto(w, "update_check")
                   ELSE Goto(w, "update_set")
        /\ UNCHANGED <<products, seq, now, session>>)

\* its second SELECT: is the new code another product's?
update_product_check(w) ==
    /\ pc[w] = "update_check"
    /\ IF \E p \in SelectByCode(req[w].json["product_code"]) : p.id # req[w].product_id
       THEN /\ SetConn(w, "closed")
            /\ Return(w, 409, CodeInUse)
       ELSE /\ Goto(w, "update_set")
            /\ UNCHANGED conn
    /\ UNCHANGED <<products, seq, now, session, invoked>>

\* a SET list without updated_at
UpdatedNoRefresh(p, data, at) ==
    [p EXCEPT
        !.product_code = IF Truthy(Get(data, "product_code"))
                         THEN upper(data["product_code"]) ELSE @,
        !.product_name = IF Truthy(Get(data, "product_name"))
                         THEN data["product_name"] ELSE @,
        !.hospital_name = IF Truthy(Get(data, "hospital_name"))
                          THEN data["hospital_name"] ELSE @,
        !.purchase_date = IF Truthy(Get(data, "purchase_date"))
                          THEN PgDate(data["purchase_date"]) ELSE @]

\* the row as the UPDATE statement's SET list leaves it
Updated(p, data, at) ==
    [p EXCEPT
        !.product_code = IF Truthy(Get(data, "product_code"))
                         THEN upper(data["product_code"]) ELSE @,
        !.product_name = IF Truthy(Get(data, "product_name"))
                         THEN data["product_name"] ELSE @,
        !.hospital_name = IF Truthy(Get(data, "hospital_name"))
                          THEN data["hospital_name"] ELSE @,
        !.purchase_date = IF Truthy(Get(data, "purchase_date"))
                          THEN PgDate(data["purchase_date"]) ELSE @,
        !.updated_at = at]

\* its UPDATE and commit
update_product_set(w) ==
    /\ pc[w] = "update_set"
    /\ LET data == req[w].json
           rows == SelectById(req[w].product_id)
       IN  IF Truthy(Get(data, "purchase_date")) /\ ~IsDateText(data["purchase_date"])
           THEN /\ Raise(w, "DataError")
                /\ UNCHANGED <<products, now, conn>>
           ELSE IF \E p \in rows :
                      UniqueViolation(products, Updated(p, data, 0).product_code, p.id)
           THEN \* no except clause around the UPDATE
                /\ Raise(w, "IntegrityError")
                /\ UNCHANGED <<products, now, conn>>
           ELSE /\ ClockLeft
                /\ now' = now + 1
                /\ products' = (products \ rows) \cup {Updated(p, data, now') : p \in rows}
                /\ SetConn(w, "closed")
                /\ Return(w, 200, [success |-> TRUE, message |-> "product updated"])
    /\ UNCHANGED <<seq, session, invoked>>

\* delete_product up to its SELECT
delete_product(w) ==
    /\ Received(w, "delete")
    /\ login_required(w,
        /\ IF SelectById(req[w].product_id) = {}
           THEN /\ SetConn(w, "closed")
                /\ Return(w, 404, NotFound)
           ELSE /\ SetConn(w, "open")
                /\ Goto(w, "delete_row")
        /\ UNCHANGED <<products, seq, now, session>>)

\* its DELETE and commit
delete_product_row(w) ==
    /\ pc[w] = "delete_row"
    /\ products' = products \ SelectById(req[w].product_id)
    /\ SetConn(w, "closed")
    /\ Return(w, 200, [success |-> TRUE, message |-> "product deleted"])
    /\ UNCHANGED <<seq, now, session, invoked>>

\* both COUNT queries are one step: the route is run with one request at a time
get_stats(w) ==
    /\ Received(w, "stats")
    /\ login_required(w,
        /\ SetConn(w, "closed")
        /\ Return(w, 200, [success |-> TRUE,
                           data |-> [total_products |-> Cardinality(products),
                                     total_hospitals |->
                                         Cardinality({p.hospital_name : p \in products})]])
        /\ UNCHANGED <<products, seq, now, session>>)

-----------------------------------------------------------------------------
(* Listing *)

\* s LIKE p: % is any text, _ is any one character
RECURSIVE Like(_, _)
Like(s, p) ==
    IF p = <<>> THEN s = <<>>
    ELSE IF Head(p) = "%" THEN Like(s, Tail(p)) \/ (s # <<>> /\ Like(Tail(s), p))
    ELSE /\ s # <<>>
         /\ Head(p) = "_" \/ Head(p) = Head(s)
         /\ Like(Tail(s), Tail(p))

\* s ILIKE p
ILike(s, p) == Like(lower(s), lower(p))

\* the WHERE clause of both queries of get_all_products
Matching(search) ==
    IF search # <<>>
    THEN LET search_pattern == <<"%">> \o search \o <<"%">>
         IN  {p \in products : \/ ILike(p.product_code, search_pattern)
                               \/ ILike(p.product_name, search_pattern)
                               \/ ILike(p.hospital_name, search_pattern)}
    ELSE products

\* ORDER BY created_at DESC: every order of the rows that it allows
OrderByCreatedDesc(rows) ==
    {o \in [1..Cardinality(rows) -> rows] :
        /\ \A i, j \in DOMAIN o : i # j => o[i] # o[j]
        /\ \A i, j \in DOMAIN o : i < j => o[i].created_at >= o[j].created_at}

\* LIMIT limit OFFSET offset
LimitOffset(ordered, limit, offset) ==
    SubSeq(ordered, offset + 1,
           IF offset + limit <= Len(ordered) THEN offset + limit ELSE Len(ordered))

\* dict(row), the dates made text
RowToJson(p) == [p EXCEPT !.purchase_date = isoformat(@)]

\* an offset that counts pages from 0
OffsetFromZero(page, per_page) == page * per_page

Offset(page, per_page) == (page - 1) * per_page

TotalPages(total, per_page) == (total + per_page - 1) \div per_page

\* the COUNT query and the page query are one step: the route is run with one
\* request at a time
get_all_products(w) ==
    /\ Received(w, "list")
    /\ login_required(w,
        LET page == req[w].page
            per_page == req[w].per_page
            offset == Offset(page, per_page)
            total == Cardinality(Matching(req[w].search))
        IN  /\ SetConn(w, "closed")
            /\ \E ordered \in OrderByCreatedDesc(Matching(req[w].search)) :
                   LET rows == LimitOffset(ordered, per_page, offset)
                   IN  Return(w, 200,
                           [success |-> TRUE,
                            data |-> [i \in DOMAIN rows |-> RowToJson(rows[i])],
                            pagination |-> [page |-> page, per_page |-> per_page,
                                            total |-> total,
                                            total_pages |-> TotalPages(total, per_page)]])
            /\ UNCHANGED <<products, seq, now, session>>)

-----------------------------------------------------------------------------
(* Batch import *)

\* psycopg2.extras.execute_values' page_size, as batch_add_products passes it
page_size == 500

\* the order in which the loop body reads a product's keys
batch_fields == <<"purchase_date", "product_code", "product_name", "hospital_name">>

\* what the loop body does with one product: "ok" (a tuple is appended), the key
\* whose KeyError is caught, or "AttributeError" (None has no replace or upper)
RECURSIVE RowOutcome(_, _)
RowOutcome(product, k) ==
    IF k > Len(batch_fields) THEN "ok"
    ELSE IF batch_fields[k] \notin DOMAIN product THEN batch_fields[k]
    ELSE IF k <= 2 /\ product[batch_fields[k]] = None THEN "AttributeError"
    ELSE RowOutcome(product, k + 1)

IsValidRow(ip) == RowOutcome(ip[2], 1) = "ok"
IsKeyErrorRow(ip) == RowOutcome(ip[2], 1) \notin {"ok", "AttributeError"}

\* list(enumerate(products)), counted from 1
Enumerate(list) == [i \in 1..Len(list) |-> <<i, list[i]>>]

\* the tuples of valid_products, each with the number of its row
ValidProducts(list) ==
    LET kept == SelectSeq(Enumerate(list), IsValidRow)
    IN  [i \in 1..Len(kept) |->
            [row |-> kept[i][1],
             product_code |-> upper(kept[i][2]["product_code"]),
             product_name |-> kept[i][2]["product_name"],
             hospital_name |-> kept[i][2]["hospital_name"],
             purchase_date |-> replace(kept[i][2]["purchase_date"])]]

\* errors, after the loop
RowErrors(list) ==
    LET bad == SelectSeq(Enumerate(list), IsKeyErrorRow)
    IN  [i \in 1..Len(bad) |->
            [row |-> bad[i][1], missing |-> RowOutcome(bad[i][2], 1)]]

\* one INSERT ... VALUES page ON CONFLICT (product_code) DO NOTHING, run on a
\* transaction's view st = [table, seq, rowcount, error]: every row takes an id
\* from the sequence; a row whose code is in the table, or earlier in the page,
\* is skipped; a text that is no date (DataError) or a null in a NOT NULL column
\* (IntegrityError) fails the statement
InsertPage(st, page, at) ==
    LET n == Len(page)
        nulls == {j \in 1..n : page[j].product_name = None \/ page[j].hospital_name = None}
        codes == {p.product_code : p \in st.table}
        inserted == {j \in 1..n :
                        /\ page[j].product_code \notin codes
                        /\ \A i \in 1..(j - 1) : page[i].product_code # page[j].product_code}
    IN  IF st.error # "none" THEN st
        ELSE IF \E j \in 1..n : ~IsDateText(page[j].purchase_date)
        THEN [st EXCEPT !.error = "DataError"]
        ELSE IF nulls # {}
        THEN [st EXCEPT !.error = "IntegrityError"]
        ELSE [table |-> st.table \cup
                        {[id |-> st.seq + j,
                          product_code |-> page[j].product_code,
                          product_name |-> page[j].product_name,
                          hospital_name |-> page[j].hospital_name,
                          purchase_date |-> PgDate(page[j].purchase_date),
                          created_at |-> at, updated_at |-> at] : j \in inserted},
              seq |-> st.seq + n,
              rowcount |-> Cardinality(inserted),
              error |-> "none"]

\* execute_values: one statement per page of page_size rows; the cursor's
\* rowcount is that of the statement run last
RECURSIVE execute_values(_, _, _, _)
execute_values(st, argslist, size, at) ==
    IF argslist = <<>> THEN st
    ELSE IF Len(argslist) <= size THEN InsertPage(st, argslist, at)
    ELSE execute_values(InsertPage(st, SubSeq(argslist, 1, size), at),
                        SubSeq(argslist, size + 1, Len(argslist)), size, at)

\* the pages of the import and its commit are one step: another request's insert
\* of one of its codes waits for the commit
batch_add_products(w) ==
    /\ Received(w, "batch")
    /\ login_required(w,
        LET list == GetOr(req[w].json, "products", <<>>)
            valid_products == ValidProducts(list)
            errors == RowErrors(list)
            st == execute_values([table |-> products, seq |-> seq,
                                  rowcount |-> 0, error |-> "none"],
                                 valid_products, page_size, now + 1)
            success_count == st.rowcount
            duplicate_count == Len(valid_products) - success_count
        IN  /\ UNCHANGED session
            /\ IF list = <<>>
               THEN /\ Return(w, 400, [success |-> FALSE, message |-> "no products given"])
                    /\ UNCHANGED <<products, seq, now, conn>>
               ELSE IF \E i \in 1..Len(list) : RowOutcome(list[i], 1) = "AttributeError"
               THEN /\ Raise(w, "AttributeError")
                    /\ UNCHANGED <<products, seq, now, conn>>
               ELSE IF valid_products = <<>>
               THEN /\ Return(w, 400, [success |-> FALSE, message |-> "no valid products",
                                       errors |-> errors])
                    /\ UNCHANGED <<products, seq, now, conn>>
               ELSE IF st.error # "none"
               THEN \* except Exception: rollback, close
                    /\ Return(w, 500, [success |-> FALSE, message |-> "batch failed",
                                       error |-> st.error])
                    /\ SetConn(w, "closed")
                    /\ UNCHANGED <<products, seq, now>>
               ELSE /\ ClockLeft
                    /\ now' = now + 1
                    /\ seq' = st.seq
                    /\ SetConn(w, "closed")
                    /\ products' = st.table
                    /\ Return(w, 200,
                         [success |-> TRUE,
                          success_count |-> success_count,
                          duplicate_count |-> duplicate_count,
                          errors |-> IF duplicate_count > 0
                                     THEN Append(errors, [skipped |-> duplicate_count])
                                     ELSE errors]))

-----------------------------------------------------------------------------
(* Requests *)

Date1 == <<"2", "0", "2", "4", "-", "0", "1", "-", "0", "2">>
Date1Slash == <<"2", "0", "2", "4", "/", "0", "1", "/", "0", "2">>
Date2Slash == <<"2", "0", "2", "5", "/", "1", "1", "/", "3", "0">>
NotADate == <<"x">>

Product(code, name, hospital, date) ==
    [product_code |-> code, product_name |-> name,
     hospital_name |-> hospital, purchase_date |-> date]

\* d without the key
Without(d, key) == [k \in DOMAIN d \ {key} |-> d[k]]

LoginReq(c, username, password) ==
    [name |-> "login", client |-> c,
     json |-> [username |-> username, password |-> password]]
LogoutReq(c) == [name |-> "logout", client |-> c]
CheckAuthReq(c) == [name |-> "check_auth", client |-> c]
VerifyReq(c, code) == [name |-> "verify", client |-> c, product_code |-> code]
ListReq(c, page, per_page, search) ==
    [name |-> "list", client |-> c, page |-> page, per_page |-> per_page, search |-> search]
CreateReq(c, data) == [name |-> "create", client |-> c, json |-> data]
UpdateReq(c, id, data) == [name |-> "update", client |-> c, product_id |-> id, json |-> data]
DeleteReq(c, id) == [name |-> "delete", client |-> c, product_id |-> id]
BatchReq(c, list) == [name |-> "batch", client |-> c, json |-> [products |-> list]]
StatsReq(c) == [name |-> "stats", client |-> c]

-----------------------------------------------------------------------------
(* The service with one request at a time: every route, two clients *)

Usernames == {AdminName, <<" ">> \o AdminName \o <<" ">>, <<"b">>, <<" ">>}
Passwords == {default_password, <<"x">>, <<>>}
CodeTexts == {<<"a">>, <<"A">>, <<"b">>}

CreateBodies ==
    {Product(code, <<"x">>, <<"h">>, date) :
        code \in CodeTexts, date \in {Date1Slash, NotADate}}
    \cup {Without(Product(<<"a">>, <<"x">>, <<"h">>, Date1), "hospital_name"),
          Product(<<"a">>, <<>>, <<"h">>, Date1),
          Product(None, <<"x">>, <<"h">>, Date1)}

UpdateBodies ==
    {<<>>,
     [hospital_name |-> <<"k">>],
     [product_code |-> <<"b">>],
     [product_code |-> <<"a">>, product_name |-> <<"y">>],
     [product_name |-> <<>>, purchase_date |-> None],
     [purchase_date |-> Date2Slash],
     [purchase_date |-> NotADate]}

BatchLists ==
    {<<>>,
     <<Product(<<"a">>, <<"x">>, <<"h">>, Date1Slash),
       Product(<<"b">>, <<"x">>, <<"k">>, Date1)>>,
     <<Without(Product(<<"a">>, <<"x">>, <<"h">>, Date1), "product_name")>>,
     <<Product(<<"b">>, <<"x">>, <<"h">>, NotADate)>>}

Ids == 1..2

Requests(c) ==
    {LoginReq(c, u, p) : u \in Usernames, p \in Passwords}
    \cup {LogoutReq(c), CheckAuthReq(c), StatsReq(c)}
    \cup {VerifyReq(c, code) : code \in CodeTexts}
    \cup {ListReq(c, 1, 2, search) : search \in {<<>>, <<"a">>}}
    \cup {CreateReq(c, data) : data \in CreateBodies}
    \cup {UpdateReq(c, id, data) : id \in Ids, data \in UpdateBodies}
    \cup {DeleteReq(c, id) : id \in Ids}
    \cup {BatchReq(c, list) : list \in BatchLists}

Init ==
    /\ products = {}
    /\ seq = 0
    /\ now = 0
    /\ session = [c \in Clients |-> <<>>]
    /\ pc = [w \in Workers |-> "idle"]
    /\ req = [w \in Workers |-> NoReq]
    /\ resp = [w \in Workers |-> NoResp]
    /\ conn = [w \in Workers |-> "none"]
    /\ invoked = [w \in Workers |-> FALSE]

Next ==
    \/ \E c \in Clients : \E r \in Requests(c) : Send("w1", r)
    \/ api_login("w1")
    \/ api_logout("w1")
    \/ check_auth("w1")
    \/ verify_product("w1")
    \/ get_all_products("w1")
    \/ add_product("w1")
    \/ update_product("w1")
    \/ update_product_check("w1")
    \/ update_product_set("w1")
    \/ delete_product("w1")
    \/ delete_product_row("w1")
    \/ batch_add_products("w1")
    \/ get_stats("w1")

Spec == Init /\ [][Next]_vars

-----------------------------------------------------------------------------
(* Concurrent writers: two workers serve the requests of a logged-in admin *)

\* the session api_login leaves to the seeded admin
LoggedIn == SessionSet(SessionSet(<<>>, "admin_id", 1), "admin_username", AdminName)

InitLoggedIn ==
    /\ products = {}
    /\ seq = 0
    /\ now = 0
    /\ session = [c \in Clients |-> IF c = "c1" THEN LoggedIn ELSE <<>>]
    /\ pc = [w \in Workers |-> "idle"]
    /\ req = [w \in Workers |-> NoReq]
    /\ resp = [w \in Workers |-> NoResp]
    /\ conn = [w \in Workers |-> "none"]
    /\ invoked = [w \in Workers |-> FALSE]

WriteRequests ==
    {CreateReq("c1", Product(code, <<"x">>, <<"h">>, Date1Slash)) : code \in CodeTexts}
    \cup {UpdateReq("c1", id, data) : id \in Ids,
            data \in {<<>>, [product_code |-> <<"b">>],
                      [product_code |-> <<"a">>, hospital_name |-> <<"k">>],
                      [product_name |-> <<>>],
                      [product_name |-> <<"y">>, purchase_date |-> Date2Slash]}}
    \cup {DeleteReq("c1", 1)}
    \cup {BatchReq("c1", <<Product(<<"a">>, <<"x">>, <<"h">>, Date1),
                           Product(<<"B">>, <<"y">>, <<"h">>, Date1)>>)}

NextConc ==
    \/ \E w \in Workers : \E r \in WriteRequests : Send(w, r)
    \/ \E w \in Workers : add_product(w)
    \/ \E w \in Workers : update_product(w)
    \/ \E w \in Workers : update_product_check(w)
    \/ \E w \in Workers : update_product_set(w)
    \/ \E w \in Workers : delete_product(w)
    \/ \E w \in Workers : delete_product_row(w)
    \/ \E w \in Workers : batch_add_products(w)

SpecConc == InitLoggedIn /\ [][NextConc]_vars

-----------------------------------------------------------------------------
(* Logins of two clients at a time *)

LoginRequests(c) ==
    {LoginReq(c, u, p) : u \in Usernames, p \in Passwords}
    \cup {LogoutReq(c), CheckAuthReq(c)}

NextLogin ==
    \/ \E w \in Workers : \E c \in Clients : \E r \in LoginRequests(c) : Send(w, r)
    \/ \E w \in Workers : api_login(w)
    \/ \E w \in Workers : api_logout(w)
    \/ \E w \in Workers : check_auth(w)

SpecLogin == Init /\ [][NextLogin]_vars

-----------------------------------------------------------------------------
(* Listing a table that creates and batch imports fill *)

\* the largest page and the largest page size asked for
MaxPage == 3
MaxPerPage == 2

Searches == {<<>>, <<"a">>, <<"H">>, <<"_">>, <<"b", "%", "1">>}

ListRequests ==
    {ListReq("c1", page, per_page, search) :
        page \in 1..MaxPage, per_page \in 1..MaxPerPage, search \in Searches}
    \cup {CreateReq("c1", Product(<<"a", "b", "1">>, <<"x">>, <<"h">>, Date1)),
          CreateReq("c1", Product(<<"b">>, <<"y", "a">>, <<"k">>, Date1Slash)),
          BatchReq("c1", <<Product(<<"k", "1">>, <<"x">>, <<"h">>, Date1),
                           Product(<<"y">>, <<"b", "x", "1">>, <<"h", "a">>, Date1)>>),
          BatchReq("c1", <<Product(<<"a">>, <<"x">>, <<"k">>, Date1),
                           Product(<<"x", "1">>, <<"y">>, <<"k">>, Date1),
                           Product(<<"h">>, <<"y">>, <<"k">>, Date1)>>)}

NextList ==
    \/ \E r \in ListRequests : Send("w1", r)
    \/ get_all_products("w1")
    \/ add_product("w1")
    \/ batch_add_products("w1")

SpecList == InitLoggedIn /\ [][NextList]_vars

-----------------------------------------------------------------------------
(* Batch imports of short lists with malformed rows, and of a list longer  *)
(* than one page                                                            *)

BatchRows ==
    {Product(<<"a">>, <<"x">>, <<"h">>, Date1Slash),
     Product(<<"A">>, <<"y">>, <<"h">>, Date1),
     Product(<<"b">>, <<"x">>, <<"h">>, Date1),
     Without(Product(<<"b">>, <<"x">>, <<"h">>, Date1), "hospital_name"),
     Without(Product(<<"b">>, <<"x">>, <<"h">>, Date1), "purchase_date"),
     Product(<<"b">>, <<>>, <<"h">>, Date1),
     Product(<<"b">>, <<"x">>, None, Date1),
     Product(<<"b">>, <<"x">>, <<"h">>, None),
     Product(<<"b">>, <<"x">>, <<"h">>, NotADate)}

\* page_size rows of one product and then another product
LongList ==
    [i \in 1..(page_size + 1) |->
        IF i <= page_size THEN Product(<<"a">>, <<"x">>, <<"h">>, Date1)
                          ELSE Product(<<"b">>, <<"x">>, <<"h">>, Date1)]

\* the batch of the specification's example, to follow a create of code a
ExampleList ==
    <<Product(<<"b">>, <<"x">>, <<"h">>, Date1),
      Product(<<"a">>, <<"x">>, <<"h">>, Date1),
      Without(Product(<<"k">>, <<"x">>, <<"h">>, Date1), "hospital_name")>>

BatchRequests ==
    {BatchReq("c1", <<r>>) : r \in BatchRows}
    \cup {BatchReq("c1", <<r1, r2>>) : r1 \in BatchRows, r2 \in BatchRows}
    \cup {BatchReq("c1", LongList), BatchReq("c1", ExampleList), BatchReq("c1", <<>>)}
    \cup {CreateReq("c1", Product(<<"a">>, <<"x">>, <<"h">>, Date1))}

NextBatch ==
    \/ \E r \in BatchRequests : Send("w1", r)
    \/ add_product("w1")
    \/ batch_add_products("w1")

SpecBatch == InitLoggedIn /\ [][NextBatch]_vars

-----------------------------------------------------------------------------
(* Properties *)

\* worker w takes the first step of its request's handling
Starts(w) == pc[w] = "recv" /\ pc'[w] # "recv"

\* the request of worker w ends in this step
Ends(w) == pc[w] # "idle" /\ pc'[w] = "idle"

ProtectedRoutes == {"list", "create", "update", "delete", "batch", "stats"}

\* C1: a request to a protected route whose session holds no admin_id is answered
\* 401, the route's function is not called and the products table stays as it is
C1_AuthGate ==
    [][\A w \in Workers :
        (/\ Starts(w)
         /\ req[w].name \in ProtectedRoutes
         /\ "admin_id" \notin DOMAIN session[req[w].client])
        => /\ Ends(w)
           /\ resp'[w] = [status |-> 401, body |-> Unauthorized]
           /\ ~invoked'[w]
           /\ products' = products]_vars

\* a delete of a stored product was refused to a client whose session is empty
C1_Witness ==
    \E w \in Workers :
        /\ pc[w] = "idle"
        /\ req[w].name = "delete"
        /\ session[req[w].client] = <<>>
        /\ \E p \in products : p.id = req[w].product_id
        /\ resp[w].status = 401

\* C2: no two stored products have codes that are equal without regard to case,
\* and every stored code is in upper case
C2_UniqueUpperCodes ==
    /\ \A p, q \in products : p.id # q.id => upper(p.product_code) # upper(q.product_code)
    /\ \A p \in products : p.product_code = upper(p.product_code)

\* two products are stored and a request was refused for its code
C2_Witness ==
    /\ Cardinality(products) = 2
    /\ \E w \in Workers : pc[w] = "idle" /\ resp[w].status = 409

\* C3: a create or an update that the UNIQUE constraint rejects ends with 409,
\* never with the driver's exception uncaught
C3_ViolationIsDuplicateCode ==
    \A w \in Workers :
        (pc[w] = "idle" /\ req[w].name \in {"create", "update"})
        => resp[w] # Uncaught("IntegrityError")

\* C4: no request has ended with its connection open
C4_ConnectionsReleased ==
    \A w \in Workers : pc[w] = "idle" => conn[w] # "open"

\* the fields an update may set
UpdateFields == {"product_code", "product_name", "hospital_name", "purchase_date"}

\* row q is row p with the fields in `given` set from data and updated_at set to at
PatchedFrom(p, q, data, given, at) ==
    /\ q.id = p.id
    /\ q.created_at = p.created_at
    /\ q.updated_at = at
    /\ q.product_code = IF "product_code" \in given
                        THEN upper(data["product_code"]) ELSE p.product_code
    /\ q.product_name = IF "product_name" \in given
                        THEN data["product_name"] ELSE p.product_name
    /\ q.hospital_name = IF "hospital_name" \in given
                         THEN data["hospital_name"] ELSE p.hospital_name
    /\ IF "purchase_date" \in given
       THEN isoformat(q.purchase_date) = replace(data["purchase_date"])
       ELSE q.purchase_date = p.purchase_date

OthersUnchanged(id) ==
    {q \in products' : q.id # id} = {p \in products : p.id # id}

\* C7, as amended: a successful update sets, on record id if the UPDATE still
\* finds it, exactly the fields given a non-empty value, and updated_at to the
\* time of the update; id, created_at and every other record stay; a record
\* deleted since the handler's check stays deleted; NotFound and DuplicateCode
\* leave the table as it is
C7_UpdateFrame ==
    [][\A w \in Workers :
        (Ends(w) /\ req[w].name = "update")
        => LET id == req[w].product_id
               data == req[w].json
               given == {f \in UpdateFields : f \in DOMAIN data /\ Truthy(data[f])}
           IN  /\ resp'[w].status = 200
                  => /\ OthersUnchanged(id)
                     /\ now' > now
                     /\ \A p \in products : p.id = id
                            => \E q \in products' : PatchedFrom(p, q, data, given, now')
                     /\ \A q \in products' : q.id = id => \E p \in products : p.id = id
               /\ resp'[w].status \in {404, 409} => products' = products]_vars

\* C7, as claimed: the record is there and every supplied field is set
C7_UpdateSetsSuppliedFields ==
    [][\A w \in Workers :
        (Ends(w) /\ req[w].name = "update" /\ resp'[w].status = 200)
        => LET id == req[w].product_id
               data == req[w].json
               given == UpdateFields \cap DOMAIN data
           IN  /\ OthersUnchanged(id)
               /\ \E p \in products : \E q \in products' :
                      p.id = id /\ PatchedFrom(p, q, data, given, now')]_vars

\* an update of the code and the hospital name has succeeded on a stored product
C7_Witness ==
    \E w \in Workers :
        /\ pc[w] = "idle"
        /\ req[w].name = "update"
        /\ DOMAIN req[w].json = {"product_code", "hospital_name"}
        /\ resp[w].status = 200
        /\ \E p \in products :
               /\ p.id = req[w].product_id
               /\ p.hospital_name = req[w].json["hospital_name"]
               /\ p.updated_at > p.created_at

\* text a and text b are equal without regard to case
SameCode(a, b) == lower(a) = lower(b)

\* C8: a successful create stores the code in upper case, the name, the hospital
\* and the date with - for /; verify of a code answers verified with exactly
\* these four fields of the product whose code it is without regard to case,
\* and not verified when there is none
C8_VerifyRoundTrip ==
    [][\A w \in Workers :
        Ends(w) =>
        /\ (req[w].name = "create" /\ resp'[w].status = 201)
           => \E p \in products' \ products :
                  /\ p.id = resp'[w].body.id
                  /\ p.product_code = upper(req[w].json["product_code"])
                  /\ p.product_name = req[w].json["product_name"]
                  /\ p.hospital_name = req[w].json["hospital_name"]
                  /\ isoformat(p.purchase_date) = replace(req[w].json["purchase_date"])
        /\ req[w].name = "verify"
           => LET hits == {p \in products : SameCode(p.product_code, req[w].product_code)}
              IN  IF hits = {}
                  THEN resp'[w] = [status |-> 200, body |-> NotVerified]
                  ELSE \E p \in hits :
                           resp'[w] = [status |-> 200,
                                       body |-> [success |-> TRUE, verified |-> TRUE,
                                                 data |-> [product_code |-> p.product_code,
                                                           product_name |-> p.product_name,
                                                           hospital_name |-> p.hospital_name,
                                                           purchase_date |->
                                                               isoformat(p.purchase_date)]]]]_vars

\* verify of the code in lower case has found the product stored in upper case
C8_Witness ==
    \E w \in Workers :
        /\ pc[w] = "idle"
        /\ req[w].name = "verify"
        /\ req[w].product_code = <<"a">>
        /\ resp[w].body.verified
        /\ resp[w].body.data.product_code = <<"A">>
        /\ resp[w].body.data.purchase_date = Date1

\* the username a login looks up
LoginName(r) == strip(r.json["username"])

\* a login with a password and a username that no admin has
UnknownUser(r) ==
    /\ r.name = "login"
    /\ LoginName(r) # <<>> /\ r.json["password"] # <<>>
    /\ \A a \in admins : a.username # LoginName(r)

\* a login with an admin's username and a password that is not the admin's
WrongPassword(r) ==
    /\ r.name = "login"
    /\ r.json["password"] # <<>>
    /\ \E a \in admins : /\ a.username = LoginName(r)
                         /\ a.password_hash # generate_password_hash(r.json["password"])

\* a login with an admin's username and the admin's password
RightPassword(r, c) ==
    /\ r.name = "login" /\ r.client = c
    /\ \E a \in admins : /\ a.username = LoginName(r)
                         /\ a.password_hash = generate_password_hash(r.json["password"])

\* C9: a login of an unknown user and a login with a wrong password get the same
\* 401 response, neither changes a session, and a session gains an admin_id only
\* by a login with an admin's name and password
C9_LoginFailureSymmetry ==
    /\ [](\A w1, w2 \in Workers :
            (/\ pc[w1] = "idle" /\ UnknownUser(req[w1])
             /\ pc[w2] = "idle" /\ WrongPassword(req[w2]))
            => resp[w1] = resp[w2] /\ resp[w1].status = 401)
    /\ [][/\ \A w \in Workers :
               (Ends(w) /\ (UnknownUser(req[w]) \/ WrongPassword(req[w])))
               => session' = session
          /\ \A c \in Clients :
               ("admin_id" \in DOMAIN session'[c] /\ session'[c] # session[c])
               => \E w \in Workers : Ends(w) /\ RightPassword(req[w], c)]_vars

\* one worker has answered an unknown user and the other a wrong password
C9_Witness ==
    \E w1, w2 \in Workers :
        /\ pc[w1] = "idle" /\ UnknownUser(req[w1]) /\ resp[w1].status = 401
        /\ pc[w2] = "idle" /\ WrongPassword(req[w2]) /\ resp[w2].status = 401
        /\ \A c \in Clients : session[c] = <<>>

\* the number of rows of a batch response's errors that name a row
RowErrorCount(errors) == Cardinality({i \in DOMAIN errors : "row" \in DOMAIN errors[i]})

\* C5: a successful batch import reports as success_count the number of rows it
\* added, as duplicates the valid rows it did not add, and the three counts sum
\* to the length of the list
C5_BatchCounts ==
    [][\A w \in Workers :
        (Ends(w) /\ req[w].name = "batch" /\ resp'[w].status = 200)
        => LET list == req[w].json["products"]
               body == resp'[w].body
               added == Cardinality(products' \ products)
               rowErrors == RowErrorCount(body.errors)
           IN  /\ body.success_count = added
               /\ body.duplicate_count = (Len(list) - rowErrors) - added
               /\ body.success_count + body.duplicate_count + rowErrors = Len(list)]_vars

\* the product lacks a required field: absent, empty or null
LacksField(product) ==
    \E i \in DOMAIN required_fields : ~Truthy(Get(product, required_fields[i]))

WellFormed(product) == ~LacksField(product) /\ IsDateText(product["purchase_date"])

\* C6: a batch import of rows that either lack a required field or are
\* well-formed answers every row that lacks a field with an error naming the
\* row, stores no row without its fields, and stores every well-formed row
\* whose code was not stored before
C6_BatchIsolatesBadRows ==
    [][\A w \in Workers :
        (/\ Ends(w) /\ req[w].name = "batch"
         /\ \A i \in DOMAIN req[w].json["products"] :
                \/ LacksField(req[w].json["products"][i])
                \/ WellFormed(req[w].json["products"][i]))
        => LET list == req[w].json["products"]
               body == resp'[w].body
           IN  /\ \A i \in DOMAIN list :
                      LacksField(list[i])
                      => /\ "errors" \in DOMAIN body
                         /\ \E e \in DOMAIN body.errors :
                                "row" \in DOMAIN body.errors[e] /\ body.errors[e].row = i
               /\ \A p \in products' \ products :
                      p.product_code # <<>> /\ p.product_name # <<>>
                      /\ p.hospital_name # <<>>
               /\ \A i \in DOMAIN list :
                      WellFormed(list[i])
                      => \E p \in products' :
                             p.product_code = upper(list[i]["product_code"])]_vars

\* the rows that the WHERE clause of the listing selects
Selected(search) ==
    IF search = <<>> THEN products
    ELSE {p \in products :
            \E field \in {p.product_code, p.product_name, p.hospital_name} :
                ILike(field, <<"%">> \o search \o <<"%">>)}

\* C10: a listing reports as total the number of selected rows, as total_pages
\* that number over per_page rounded up, and as items the rows at the places
\* (page-1)*per_page+1 .. page*per_page of the selected rows in an order of
\* descending created_at; a page after the last has no items
C10_Pagination ==
    \A w \in Workers :
        (pc[w] = "idle" /\ req[w].name = "list" /\ resp[w].status = 200)
        => LET page == req[w].page
               per_page == req[w].per_page
               rows == Selected(req[w].search)
               total == Cardinality(rows)
               items == resp[w].body.data
               pagination == resp[w].body.pagination
               first == (page - 1) * per_page
           IN  /\ pagination.total = total
               /\ pagination.total_pages * per_page >= total
               /\ (pagination.total_pages - 1) * per_page < total
               /\ Len(items) <= per_page
               /\ \E o \in [1..total -> rows] :
                      /\ \A i, j \in 1..total : i # j => o[i] # o[j]
                      /\ \A i, j \in 1..total : i < j => o[i].created_at >= o[j].created_at
                      /\ DOMAIN items = {i \in 1..per_page : first + i <= total}
                      /\ \A i \in DOMAIN items :
                             /\ items[i].id = o[first + i].id
                             /\ items[i].product_code = o[first + i].product_code
                             /\ items[i].created_at = o[first + i].created_at
               /\ page > pagination.total_pages => items = <<>>

\* the second page of two rows is the last of three selected rows out of more
C10_Witness ==
    \E w \in Workers :
        /\ pc[w] = "idle" /\ req[w].name = "list" /\ resp[w].status = 200
        /\ req[w].page = 2 /\ req[w].per_page = 2 /\ req[w].search # <<>>
        /\ resp[w].body.pagination.total = 3
        /\ resp[w].body.pagination.total_pages = 2
        /\ Len(resp[w].body.data) = 1
        /\ Cardinality(products) > 3

====
